---- MODULE Spec2Model ----
(***************************************************************************)
(* The Todo repository of src/api/repository.py: the in-memory repository  *)
(* and the SQL-backed repository (a SQLAlchemy AsyncSession over the table *)
(* "todo"), driven by one caller that sends the same operations to both.   *)
(*                                                                         *)
(* Strings are sequences of one-character strings.  Optional[X] is a       *)
(* sequence of length at most one: None is <<>>, a present x is <<x>>.     *)
(***************************************************************************)
EXTENDS Integers, Sequences, FiniteSets, TLC

VARIABLES
    data,          \* InMemoryTodoRepository.data: insertion-ordered dict, as the sequence of its items [k, v]
    table,         \* committed rows of table "todo", in id order
    uncommitted,   \* rows INSERTed by a flush of the open transaction, not yet committed
    new,           \* the session's pending TodoInDB objects (session.add, not yet flushed)
    inScope,       \* the caller is inside "async with repository"
    exc,           \* the exception now propagating through the caller ("None": none)
    ret,           \* the last operation, its argument and what it returned or raised
    lastSaved,     \* history: per key, the Todo most recently passed to save (None: never)
    nSaves,        \* history: how many times save was called
    dupKey,        \* history: some save was given a key that had been given before
    scopeSaves,    \* history: the Todos passed to save inside the current scope
    unitSaves,     \* history: the Todos passed to save in the open unit of work
    committedArgs, \* history: the Todos whose unit of work committed
    tableAtEnter,  \* history: table when the current scope was entered (<<>> outside a scope)
    aborted,       \* history: an error was raised or a session was closed
    rejected       \* history: the store rejected a duplicate key (IntegrityError was raised)

vars == <<data, table, uncommitted, new, inScope, exc, ret, lastSaved, nSaves, dupKey,
          scopeSaves, unitSaves, committedArgs, tableAtEnter, aborted, rejected>>

---------------------------------------------------------------------------
(* Bounds and input sets *)

MaxSaves == 2
MaxLimit == 1
StringLength == 128

None == <<>>
Some(x) == <<x>>

RECURSIVE Repeat(_, _)
Repeat(c, n) == IF n = 0 THEN <<>> ELSE <<c>> \o Repeat(c, n - 1)

\* 129 * "x", the over-long value of test_repository
LongValue == Repeat("x", StringLength + 1)

Keys == {<<"a">>, <<"a", "b">>}
Values == {<<"v">>, <<"w", "V">>, LongValue}

Todo(k, v, d) == [key |-> k, value |-> v, done |-> d]
Todos == {Todo(k, v, d) : k \in Keys, v \in Values, d \in BOOLEAN}

KeySubs == {None, Some(<<"b">>), Some(<<"_">>)}
ValueSubs == {None, Some(<<"v">>)}
DoneOpts == {None, Some(TRUE), Some(FALSE)}
LimitOpts == {None} \cup {Some(n) : n \in 0..MaxLimit}

TodoFilter(l, kc, vc, d) ==
    [limit |-> l, key_contains |-> kc, value_contains |-> vc, done |-> d]
Filters == {TodoFilter(l, kc, vc, d) :
              l \in LimitOpts, kc \in KeySubs, vc \in ValueSubs, d \in DoneOpts}

LimitFilters == {TodoFilter(l, None, None, None) : l \in LimitOpts}

LookupKeys == Keys \cup {<<"b">>}

---------------------------------------------------------------------------
(* Python and SQL primitives *)

\* Python "sub in s": case-sensitive literal substring
Contains(s, sub) ==
    \E i \in 0..(Len(s) - Len(sub)) : SubSeq(s, i + 1, i + Len(sub)) = sub

\* Python truthiness of an Optional[str] and of an Optional[bool]
TruthyStr(o) == o # None /\ Len(o[1]) > 0
TruthyBool(o) == o # None /\ o[1]

\* Python list slice lst[:limit]
Slice(lst, limit) ==
    IF limit = None THEN lst
    ELSE IF limit[1] >= 0 THEN SubSeq(lst, 1, IF limit[1] < Len(lst) THEN limit[1] ELSE Len(lst))
    ELSE SubSeq(lst, 1, IF Len(lst) + limit[1] > 0 THEN Len(lst) + limit[1] ELSE 0)

\* SQL "s LIKE pattern": % matches any run of characters, _ any one character
RECURSIVE Like(_, _)
Like(s, p) ==
    IF p = <<>> THEN s = <<>>
    ELSE IF Head(p) = "%" THEN Like(s, Tail(p)) \/ (s # <<>> /\ Like(Tail(s), p))
    ELSE IF s = <<>> THEN FALSE
    ELSE (Head(p) = "_" \/ Head(p) = Head(s)) /\ Like(Tail(s), Tail(p))

\* column.contains(other): column LIKE '%' || other || '%', other not escaped
ColumnContains(s, other) == Like(s, <<"%">> \o other \o <<"%">>)

\* SQL LIMIT n
SqlLimit(rows, n) == SubSeq(rows, 1, IF n < Len(rows) THEN n ELSE Len(rows))

RowKeys(rows) == {rows[i].key : i \in 1..Len(rows)}
Elems(s) == {s[i] : i \in 1..Len(s)}

---------------------------------------------------------------------------
(* InMemoryTodoRepository *)

DictKeys(d) == {d[i].k : i \in 1..Len(d)}

\* self.data.values()
DictValues(d) == [i \in 1..Len(d) |-> d[i].v]

\* A save that keeps the existing entry of a key (dict.setdefault) instead of overwriting it
InMemSaveKeepsFirst(d, todo) ==
    IF todo.key \in DictKeys(d) THEN d ELSE Append(d, [k |-> todo.key, v |-> todo])

\* self.data[todo.key] = todo
InMemSave(d, todo) ==
    IF todo.key \in DictKeys(d)
    THEN [i \in 1..Len(d) |-> IF d[i].k = todo.key THEN [k |-> d[i].k, v |-> todo] ELSE d[i]]
    ELSE Append(d, [k |-> todo.key, v |-> todo])

\* self.data.get(key)
InMemGetByKey(d, key) ==
    LET hit == SelectSeq(d, LAMBDA item : item.k = key)
    IN IF hit # <<>> THEN Some(hit[1].v) ELSE None

\* the lambda of get
InMemMatches(f, todo) ==
    /\ (~TruthyStr(f.key_contains) \/ Contains(todo.key, f.key_contains[1]))
    /\ (~TruthyStr(f.value_contains) \/ Contains(todo.value, f.value_contains[1]))
    /\ (~TruthyBool(f.done) \/ f.done[1] = todo.done)

InMemGet(d, f) ==
    Slice(SelectSeq(DictValues(d), LAMBDA t : InMemMatches(f, t)), f.limit)

---------------------------------------------------------------------------
(* The table "todo" and the session over it *)

\* TodoInDB(key=..., value=...): done is not given, so it is unset on the object
TodoInDB(key, value) == [key |-> key, value |-> value, done |-> None]

\* INSERT of one object: Column(Boolean, default=False) fills an unset done
InsertRow(obj) ==
    [key |-> obj.key, value |-> obj.value,
     done |-> IF obj.done = None THEN FALSE ELSE obj.done[1]]

\* A store whose columns carry no length: only the unique key is enforced
InsertErrorNoLength(obj, keys) ==
    IF obj.key \in keys THEN "IntegrityError" ELSE "None"

\* The store's answer to one INSERT: String(length=128) on key and value, unique=True on key
InsertError(obj, keys) ==
    IF Len(obj.key) > StringLength \/ Len(obj.value) > StringLength THEN "DataError"
    ELSE IF obj.key \in keys THEN "IntegrityError"
    ELSE "None"

\* The INSERTs of a flush, in the order the objects were added; the first rejected one ends it
RECURSIVE FlushPending(_, _, _)
FlushPending(keys, pending, inserted) ==
    IF pending = <<>> THEN [err |-> "None", rows |-> inserted]
    ELSE LET e == InsertError(Head(pending), keys)
         IN IF e # "None" THEN [err |-> e, rows |-> <<>>]
            ELSE FlushPending(keys \cup {Head(pending).key}, Tail(pending),
                              Append(inserted, InsertRow(Head(pending))))

\* Session.flush: a failed flush rolls the transaction back and raises
SessionFlush(tbl, unc, nw) ==
    LET r == FlushPending(RowKeys(tbl \o unc), nw, <<>>)
    IN IF r.err = "None"
       THEN [err |-> "None", uncommitted |-> unc \o r.rows, new |-> <<>>]
       ELSE [err |-> r.err, uncommitted |-> <<>>, new |-> nw]

\* Session.rollback: the transaction's rows and the pending objects are discarded
SessionRollback(tbl) ==
    [err |-> "None", table |-> tbl, uncommitted |-> <<>>, new |-> <<>>]

\* Session.commit: flush, then make the transaction's rows durable
SessionCommit(tbl, unc, nw) ==
    LET fl == SessionFlush(tbl, unc, nw)
    IN IF fl.err = "None"
       THEN [err |-> "None", table |-> tbl \o fl.uncommitted, uncommitted |-> <<>>, new |-> <<>>]
       ELSE [err |-> fl.err, table |-> tbl, uncommitted |-> <<>>, new |-> <<>>]

---------------------------------------------------------------------------
(* SQLTodoRepository *)

\* self._session.add(TodoInDB(key=todo.key, value=todo.value))
SQLSave(nw, todo) == Append(nw, TodoInDB(todo.key, todo.value))

\* An __aexit__ that commits whether or not an exception leaves the body
SQL__aexit__CommitsOnError(e, tbl, unc, nw) ==
    LET c == SessionCommit(tbl, unc, nw)
    IN IF c.err # "None" THEN [SessionRollback(c.table) EXCEPT !.err = c.err]
       ELSE [c EXCEPT !.err = e]

\* __aexit__: rollback when an exception leaves the body, else commit; a DatabaseError
\* of the commit is answered by rollback and raised again
SQL__aexit__(e, tbl, unc, nw) ==
    IF e # "None"
    THEN [SessionRollback(tbl) EXCEPT !.err = e]
    ELSE LET c == SessionCommit(tbl, unc, nw)
         IN IF c.err # "None" THEN [SessionRollback(c.table) EXCEPT !.err = c.err]
            ELSE c

RowToTodo(row) == Todo(row.key, row.value, row.done)

\* select(TodoInDB).filter(TodoInDB.key == key), result.scalars().first()
SQLGetByKey(rows, key) ==
    LET hit == SelectSeq(rows, LAMBDA r : r.key = key)
    IN IF hit # <<>> THEN Some(RowToTodo(hit[1])) ELSE None

\* the WHERE clause get builds
SQLMatches(f, row) ==
    /\ (f.key_contains # None => ColumnContains(row.key, f.key_contains[1]))
    /\ (f.value_contains # None => ColumnContains(row.value, f.value_contains[1]))
    /\ (f.done # None => row.done = f.done[1])

SQLGet(rows, f) ==
    LET hit == SelectSeq(rows, LAMBDA r : SQLMatches(f, r))
        cut == IF f.limit # None THEN SqlLimit(hit, f.limit[1]) ELSE hit
    IN [i \in 1..Len(cut) |-> RowToTodo(cut[i])]

---------------------------------------------------------------------------
(* The caller: operations reach both repositories in the same order *)

Ret(op, arg, mem, sql, raised) ==
    [op |-> op, arg |-> arg, mem |-> mem, sql |-> sql, raised |-> raised,
     before |-> table, unit |-> unitSaves]

Init ==
    /\ data = <<>>
    /\ table = <<>>
    /\ uncommitted = <<>>
    /\ new = <<>>
    /\ inScope = FALSE
    /\ exc = "None"
    /\ lastSaved = [k \in Keys |-> None]
    /\ nSaves = 0
    /\ dupKey = FALSE
    /\ scopeSaves = <<>>
    /\ unitSaves = <<>>
    /\ committedArgs = {}
    /\ tableAtEnter = <<>>
    /\ aborted = FALSE
    /\ rejected = FALSE
    /\ ret = Ret("init", None, None, None, "None")

\* async with repository: __aenter__ returns self (both repositories)
AEnter ==
    /\ exc = "None"
    /\ ~inScope
    /\ inScope' = TRUE
    /\ scopeSaves' = <<>>
    /\ tableAtEnter' = table
    /\ ret' = Ret("aenter", None, None, None, "None")
    /\ UNCHANGED <<data, table, uncommitted, new, exc, lastSaved, nSaves, dupKey, unitSaves,
                   committedArgs, aborted, rejected>>

\* await repo.save(todo)
Save(todo) ==
    /\ exc = "None"
    /\ nSaves < MaxSaves
    /\ data' = InMemSave(data, todo)
    /\ new' = SQLSave(new, todo)
    /\ lastSaved' = [lastSaved EXCEPT ![todo.key] = Some(todo)]
    /\ nSaves' = nSaves + 1
    /\ dupKey' = (dupKey \/ lastSaved[todo.key] # None)
    /\ scopeSaves' = IF inScope THEN Append(scopeSaves, todo) ELSE scopeSaves
    /\ unitSaves' = Append(unitSaves, todo)
    /\ ret' = Ret("save", todo, None, None, "None")
    /\ UNCHANGED <<table, uncommitted, inScope, exc, committedArgs, tableAtEnter,
                   aborted, rejected>>

\* the rows a statement of the session selects from, the pending objects flushed
Visible == table \o SessionFlush(table, uncommitted, new).uncommitted

\* A query of the session: execute() flushes the pending objects first (autoflush);
\* a rejected INSERT is raised out of the query
Query(op, arg, memResult, sqlResult) ==
    LET fl == SessionFlush(table, uncommitted, new)
    IN /\ exc = "None"
       /\ uncommitted' = fl.uncommitted
       /\ new' = fl.new
       /\ exc' = fl.err
       /\ aborted' = (aborted \/ fl.err # "None")
       /\ rejected' = (rejected \/ fl.err = "IntegrityError")
       /\ ret' = Ret(op, arg, memResult,
                     IF fl.err = "None" THEN sqlResult ELSE None,
                     fl.err)
       /\ UNCHANGED <<data, table, inScope, lastSaved, nSaves, dupKey, scopeSaves, unitSaves,
                      committedArgs, tableAtEnter>>

\* await repo.get_by_key(key)
GetByKey(key) ==
    Query("get_by_key", key, InMemGetByKey(data, key),
          SQLGetByKey(Visible, key))

\* await repo.get(todo_filter)
Get(f) ==
    Query("get", f, InMemGet(data, f), SQLGet(Visible, f))

\* the body of the scope raises
RaiseInBody ==
    /\ exc = "None"
    /\ inScope
    /\ exc' = "Exception"
    /\ aborted' = TRUE
    /\ ret' = Ret("raise", None, None, None, "Exception")
    /\ UNCHANGED <<data, table, uncommitted, new, inScope, lastSaved, nSaves, dupKey,
                   scopeSaves, unitSaves, committedArgs, tableAtEnter, rejected>>

\* the scope is left: TodoRepository.__aexit__ (in-memory, does nothing) and
\* SQLTodoRepository.__aexit__
AExit ==
    LET x == SQL__aexit__(exc, table, uncommitted, new)
    IN /\ inScope
       /\ inScope' = FALSE
       /\ table' = x.table
       /\ uncommitted' = x.uncommitted
       /\ new' = x.new
       /\ exc' = x.err
       /\ aborted' = (aborted \/ x.err # "None")
       /\ rejected' = (rejected \/ x.err = "IntegrityError")
       /\ committedArgs' = IF x.err = "None" THEN committedArgs \cup Elems(unitSaves)
                           ELSE committedArgs
       /\ unitSaves' = <<>>
       /\ scopeSaves' = <<>>
       /\ tableAtEnter' = <<>>
       /\ ret' = [Ret("aexit", scopeSaves, None, None, x.err) EXCEPT !.before = tableAtEnter]
       /\ UNCHANGED <<data, lastSaved, nSaves, dupKey>>

\* the caller catches the error that left the scope and goes on with the session
\* (pytest.raises around "async with" in test_repository)
Catch ==
    /\ exc # "None"
    /\ ~inScope
    /\ ret.op = "aexit"
    /\ exc' = "None"
    /\ ret' = Ret("catch", None, None, None, "None")
    /\ UNCHANGED <<data, table, uncommitted, new, inScope, lastSaved, nSaves, dupKey, scopeSaves,
                   unitSaves, committedArgs, tableAtEnter, aborted, rejected>>

\* create_todo_repository after its yield: an exception is answered by rollback and
\* raised again, and the session is closed either way; the next request gets a new one
EndRequest ==
    LET x == SessionRollback(table)
    IN /\ ~inScope
       /\ table' = x.table
       /\ uncommitted' = x.uncommitted
       /\ new' = x.new
       /\ exc' = "None"
       /\ aborted' = TRUE
       /\ unitSaves' = <<>>
       /\ ret' = Ret("close", None, None, None, exc)
       /\ UNCHANGED <<data, inScope, lastSaved, nSaves, dupKey, scopeSaves, committedArgs,
                      tableAtEnter, rejected>>

\* A caller through the whole life of a session; its get only limits
Next ==
    \/ AEnter
    \/ \E todo \in Todos : Save(todo)
    \/ \E key \in LookupKeys : GetByKey(key)
    \/ \E f \in LimitFilters : Get(f)
    \/ RaiseInBody
    \/ AExit
    \/ Catch
    \/ EndRequest

Spec == Init /\ [][Next]_vars

\* The caller of the contract test: saves, in a scope or not, and queries with every filter
FilterNext ==
    \/ AEnter
    \/ \E todo \in Todos : Save(todo)
    \/ \E key \in LookupKeys : GetByKey(key)
    \/ \E f \in Filters : Get(f)
    \/ AExit
    \/ Catch

FilterSpec == Init /\ [][FilterNext]_vars

---------------------------------------------------------------------------
(* Vocabulary of the properties *)

TooLong(todo) == Len(todo.value) > StringLength

\* the Todos a query of the session sees: committed rows and the open transaction's
SQLStored == {RowToTodo(r) : r \in Elems(table \o uncommitted)}
MemStored == Elems(DictValues(data))

HasRow(rows, todo) ==
    \E r \in Elems(rows) : r.key = todo.key /\ r.value = todo.value

\* the first save of the unit of work that the store rejects is an over-long one
RejectedForLength(unit, rows) ==
    \E i \in 1..Len(unit) :
        /\ TooLong(unit[i])
        /\ \A j \in 1..(i - 1) :
              /\ ~TooLong(unit[j])
              /\ unit[j].key \notin RowKeys(rows)
              /\ \A h \in 1..(j - 1) : unit[h].key # unit[j].key

Flushes == {"get", "get_by_key", "aexit"}

---------------------------------------------------------------------------
(* C2 *)

\* C2: a unit of work of the SQL repository is atomic. When the scope is left
\* normally and the commit succeeds, every Todo saved in the scope is a committed
\* row and the transaction is over; when it is left by an error (raised in the body
\* or by the commit), the committed table is what it was when the scope was
\* entered, nothing stays pending, and the error goes on to the caller.
C2_UnitOfWorkAtomic ==
    ret.op = "aexit" =>
        /\ uncommitted = <<>> /\ new = <<>>
        /\ IF ret.raised = "None"
           THEN /\ exc = "None"
                /\ \A t \in Elems(ret.arg) : HasRow(table, t)
           ELSE /\ table = ret.before
                /\ exc = ret.raised

\* a scope on an empty table saved the same key twice: its commit was rejected and
\* the first save, valid alone, is not persisted either
C2_Witness ==
    /\ ret.op = "aexit"
    /\ ret.raised = "IntegrityError"
    /\ Len(ret.arg) = 2
    /\ ret.arg[1].key = ret.arg[2].key
    /\ ~TooLong(ret.arg[1])
    /\ ret.before = <<>>
    /\ table = <<>>

---------------------------------------------------------------------------
(* C9 *)

---------------------------------------------------------------------------
(* C10 *)

C10_State ==
    /\ \A i, j \in 1..Len(data) : data[i].k = data[j].k => i = j
    /\ \A i \in 1..Len(data) : data[i].v.key = data[i].k
    /\ ret.op = "save" => ret.raised = "None"
    /\ ret.op = "get_by_key" =>
          ret.mem = (IF ret.arg \in Keys THEN lastSaved[ret.arg] ELSE None)

\* C10: the in-memory save never fails and overwrites: the store holds at most one
\* Todo per key, each under its own key, get_by_key(k) returns the Todo of the most
\* recent save with key k, and get and get_by_key leave the store unchanged.
C10_InMemoryOverwrites ==
    [][C10_State' /\ (ret'.op \in {"get", "get_by_key"} => data' = data)]_vars

\* get_by_key found a key that was saved twice and is stored once
C10_Witness ==
    /\ ret.op = "get_by_key"
    /\ ret.mem # None
    /\ dupKey
    /\ nSaves = 2
    /\ Len(data) = 1

---------------------------------------------------------------------------
(* The filter as the contract defines it *)

\* a Todo qualifies when it satisfies every criterion that is present
Qualifies(f, t) ==
    /\ (f.key_contains # None => Contains(t.key, f.key_contains[1]))
    /\ (f.value_contains # None => Contains(t.value, f.value_contains[1]))
    /\ (f.done # None => t.done = f.done[1])

Matching(stored, f) == {t \in stored : Qualifies(f, t)}

Min(a, b) == IF a < b THEN a ELSE b

\* what get(f) may return from a store, as the contract has it
LimitRespected(result, stored, f) ==
    /\ Cardinality(Elems(result)) = Len(result)
    /\ Elems(result) \subseteq Matching(stored, f)
    /\ Len(result) = (IF f.limit = None THEN Cardinality(Matching(stored, f))
                      ELSE Min(f.limit[1], Cardinality(Matching(stored, f))))

---------------------------------------------------------------------------
(* C1, C3, C4, C5, C6, C7, C8: statements the code does not meet *)

\* C1: a valid Todo saved under a key not yet stored is returned by get_by_key,
\* once its unit of work has completed, equal in key, value and done, by the
\* in-memory repository and by the SQL repository.
C1_SaveThenGetByKey ==
    (ret.op = "get_by_key" /\ ret.raised = "None") =>
        /\ (~dupKey /\ ret.arg \in Keys /\ lastSaved[ret.arg] # None)
              => ret.mem = lastSaved[ret.arg]
        /\ \A t \in committedArgs : t.key = ret.arg => ret.sql = Some(t)

\* C3: in the SQL repository the unit of work that saves a key already stored
\* fails and persists nothing, and afterwards get_by_key of that key returns the
\* first Todo as it was first saved (same value and done).
C3_DuplicateKeyKeepsFirst ==
    /\ (ret.op = "aexit" /\ \E t \in Elems(ret.arg) : t.key \in RowKeys(ret.before))
          => (ret.raised # "None" /\ table = ret.before)
    /\ (ret.op = "get_by_key" /\ ret.raised = "None" /\ rejected)
          => \A t \in committedArgs : t.key = ret.arg => ret.sql = Some(t)

\* C4: in both repositories get(f) returns all qualifying Todos when the limit is
\* absent, none when it is 0, and exactly min(n, number qualifying) of them, each
\* qualifying, when it is n > 0.
C4_LimitSemantics ==
    ret.op = "get" =>
        /\ LimitRespected(ret.mem, MemStored, ret.arg)
        /\ ret.raised = "None" => LimitRespected(ret.sql, SQLStored, ret.arg)

\* C5: in both repositories get with key_contains and value_contains (no other
\* criterion) returns exactly the stored Todos whose key and value contain them as
\* case-sensitive literal substrings.
C5_ContainsExact ==
    (ret.op = "get" /\ ret.arg.limit = None /\ ret.arg.done = None) =>
        /\ Elems(ret.mem) = Matching(MemStored, ret.arg)
        /\ ret.raised = "None" => Elems(ret.sql) = Matching(SQLStored, ret.arg)

\* C6: in both repositories get with done present (true or false) and no other
\* criterion returns exactly the stored Todos whose done equals it.
C6_DoneFilter ==
    (/\ ret.op = "get"
     /\ ret.arg.limit = None
     /\ ret.arg.key_contains = None
     /\ ret.arg.value_contains = None
     /\ ret.arg.done # None) =>
        /\ Elems(ret.mem) = {t \in MemStored : t.done = ret.arg.done[1]}
        /\ ret.raised = "None" => Elems(ret.sql) = {t \in SQLStored : t.done = ret.arg.done[1]}

\* C7: started empty and given the same saves (pairwise distinct keys),
\* get_by_key and get calls, with no error and no session ended, the two
\* repositories return the same get_by_key result and the same set and number of
\* Todos for every get.
C7_Substitutable ==
    (ret.op \in {"get", "get_by_key"} /\ ~dupKey /\ ~aborted) =>
        IF ret.op = "get_by_key" THEN ret.mem = ret.sql
        ELSE Elems(ret.mem) = Elems(ret.sql) /\ Len(ret.mem) = Len(ret.sql)

\* C8: in both repositories get_by_key of a key never saved returns the absent
\* result and raises nothing.
C8_GetByKeyNeverSaved ==
    (ret.op = "get_by_key" /\ (ret.arg \in Keys => lastSaved[ret.arg] = None)) =>
        /\ ret.raised = "None"
        /\ ret.mem = None
        /\ ret.sql = None

====
